---- MODULE Spec2Model ----
(***************************************************************************)
(* SatView (src/app.py): a Flask request handler that predicts the next    *)
(* Landsat 8/9 passes over a location, schedules one e-mail notification   *)
(* per pass on a process-wide APScheduler BackgroundScheduler, and renders *)
(* a map.                                                                  *)
(*                                                                         *)
(* Time is counted in whole seconds since an arbitrary midnight.  A        *)
(* '%Y-%m-%d %H:%M:%S' string is the tuple <<day, hour, minute, second>>   *)
(* (the calendar date is kept as a day number).  Text is a sequence of     *)
(* one-character strings.  The host's local time zone is taken to be UTC,  *)
(* so the naive datetimes handed to the scheduler denote the same instants *)
(* as datetime.utcnow().                                                   *)
(***************************************************************************)
EXTENDS Integers, Sequences, FiniteSets, TLC

VARIABLES
    clock,      \* wall clock (seconds): datetime.utcnow() / the scheduler's now
    jobs,       \* the scheduler's one-shot jobs, in add_job order
    sent,       \* send_notification invocations, in order
    req,        \* per handler thread: the locals of home()
    mapFile,    \* static/map.html: <<>> (absent) or the location last rendered
    served      \* number of POST requests accepted so far

vars == <<clock, jobs, sent, req, mapFile, served>>

----------------------------------------------------------------------------
(* Bounds of the model.                                                    *)

MaxRequests == 1    \* POST requests handled in one behaviour
MaxSats == 2        \* satellites in the ephemeris file
MaxDrift == 1       \* one-second clock steps taken before the first jump

(* Program constants.                                                      *)

GraceWindow == 3600             \* misfire_grace_time
AvailabilityHours == 6          \* timedelta(hours=6)
HorizonDays == 2                \* timedelta(days=2)

Threads == {1}                  \* handler threads of the sequential model

----------------------------------------------------------------------------
(* Text.                                                                   *)

Lower == <<"a","b","c","d","e","f","g","h","i","j","k","l","m",
           "n","o","p","q","r","s","t","u","v","w","x","y","z">>
Capital == <<"A","B","C","D","E","F","G","H","I","J","K","L","M",
             "N","O","P","Q","R","S","T","U","V","W","X","Y","Z">>
Whitespace == {" ", "\t", "\n"}
Digits == <<"0","1","2","3","4","5","6","7","8","9">>

\* str.upper() on one character
UpperChar(c) ==
    IF \E i \in 1..26 : Lower[i] = c
    THEN Capital[CHOOSE i \in 1..26 : Lower[i] = c]
    ELSE c

\* str.upper()
Upper(s) == [i \in 1..Len(s) |-> UpperChar(s[i])]

RECURSIVE LStrip(_)
LStrip(s) ==
    IF s # <<>> /\ Head(s) \in Whitespace THEN LStrip(Tail(s)) ELSE s

RECURSIVE RStrip(_)
RStrip(s) ==
    IF s # <<>> /\ s[Len(s)] \in Whitespace
    THEN RStrip(SubSeq(s, 1, Len(s) - 1))
    ELSE s

\* str.strip()
Strip(s) == RStrip(LStrip(s))

\* s.startswith(p)
StartsWith(s, p) ==
    /\ Len(p) <= Len(s)
    /\ \A i \in 1..Len(p) : s[i] = p[i]

\* the operator `needle in hay` on str: scan left to right
RECURSIVE Contains(_, _)
Contains(hay, needle) ==
    IF Len(hay) < Len(needle) THEN FALSE
    ELSE IF StartsWith(hay, needle) THEN TRUE
    ELSE Contains(Tail(hay), needle)

LANDSAT == <<"L","A","N","D","S","A","T">>
LANDSAT_8 == LANDSAT \o <<" ", "8">>
LANDSAT_9 == LANDSAT \o <<" ", "9">>

\* a normalisation that forgets .upper()
NormalizeNameNoUpper(satellite_name) == Strip(satellite_name)

\* line 134
NormalizeName(satellite_name) == Upper(Strip(satellite_name))

\* lines 134-135: the interest filter of home()
IsInteresting(satellite_name) ==
    LET satellite_name_normalized == NormalizeName(satellite_name)
    IN  \/ Contains(satellite_name_normalized, LANDSAT_8)
        \/ Contains(satellite_name_normalized, LANDSAT_9)

----------------------------------------------------------------------------
(* Dates.                                                                  *)

SecondsPerMinute == 60
SecondsPerHour == 3600
SecondsPerDay == 86400

\* datetime.strftime('%Y-%m-%d %H:%M:%S')
Strftime(t) ==
    << t \div SecondsPerDay,
       (t % SecondsPerDay) \div SecondsPerHour,
       (t % SecondsPerHour) \div SecondsPerMinute,
       t % SecondsPerMinute >>

\* datetime.strptime(s, '%Y-%m-%d %H:%M:%S')
Strptime(s) ==
    s[1] * SecondsPerDay + s[2] * SecondsPerHour + s[3] * SecondsPerMinute + s[4]

EstimateWithHours(pass_time_str, hours) ==
    Strftime(Strptime(pass_time_str) + hours * SecondsPerHour)

\* an estimate with the wrong latency
EstimateFiveHours(pass_time_str) == EstimateWithHours(pass_time_str, 5)

\* lines 45-47
estimate_data_availability(pass_time_str) ==
    EstimateWithHours(pass_time_str, AvailabilityHours)


----------------------------------------------------------------------------
(* Form fields: float(...) and int(...) of lines 120-122.  A parse yields   *)
(* [ok, val]; ok = FALSE stands for the ValueError.  A float is kept in    *)
(* hundredths of a degree.                                                 *)

IsDigit(c) == \E i \in 1..10 : Digits[i] = c

DigitVal(c) == (CHOOSE i \in 1..10 : Digits[i] = c) - 1

AllDigits(s) == \A i \in 1..Len(s) : IsDigit(s[i])

RECURSIVE DigitsValue(_)
DigitsValue(s) ==
    IF s = <<>> THEN 0
    ELSE DigitsValue(SubSeq(s, 1, Len(s) - 1)) * 10 + DigitVal(s[Len(s)])

Unsigned(s) == IF s # <<>> /\ Head(s) \in {"-", "+"} THEN Tail(s) ELSE s

Sign(s) == IF s # <<>> /\ Head(s) = "-" THEN -1 ELSE 1

\* int(text)
ParseInt(text) ==
    LET s == Strip(text)
        body == Unsigned(s)
    IN  IF body # <<>> /\ AllDigits(body)
        THEN [ok |-> TRUE, val |-> Sign(s) * DigitsValue(body)]
        ELSE [ok |-> FALSE, val |-> 0]

\* float(text), for decimal literals; the value is in hundredths
ParseFloat(text) ==
    LET s == Strip(text)
        body == Unsigned(s)
        dots == {i \in 1..Len(body) : body[i] = "."}
        cut == IF dots = {} THEN Len(body) + 1
               ELSE CHOOSE i \in dots : \A k \in dots : i <= k
        whole == SubSeq(body, 1, cut - 1)
        frac == SubSeq(body, cut + 1, Len(body))
        frac2 == SubSeq(frac \o <<"0", "0">>, 1, 2)
    IN  IF /\ Len(whole) + Len(frac) > 0
           /\ AllDigits(whole)
           /\ AllDigits(frac)
        THEN [ok |-> TRUE,
              val |-> Sign(s) * (DigitsValue(whole) * 100 + DigitsValue(frac2))]
        ELSE [ok |-> FALSE, val |-> 0]

User == "user@example.org"

GoodForm ==
    [latitude |-> <<"3","4",".","0","5">>,
     longitude |-> <<"-","1","1","8",".","2","5">>,
     notification_time |-> <<"3","0">>,
     user_id |-> User]

\* request.form of the POST requests tried
Forms ==
    { GoodForm,
      [GoodForm EXCEPT !.notification_time = <<"1",".","5">>],
      [GoodForm EXCEPT !.latitude = <<"a","b","c">>],
      [GoodForm EXCEPT !.latitude = <<"9","1">>],
      [GoodForm EXCEPT !.longitude = <<"-","1","8","1">>],
      [GoodForm EXCEPT !.notification_time = <<"0">>] }


----------------------------------------------------------------------------
(* The pass oracle: get_next_pass_times.  A satellite of the ephemeris     *)
(* file is [name, events]; events is what find_events returns for the      *)
(* window, a sequence of <<time, kind>> with kind 0 = rise, 1 = culminate, *)
(* 2 = set.                                                                *)

Rise == 0

\* a scan that forgets the test of line 38 and takes the first event
FirstEventOfAnyKind(events) ==
    IF events = <<>> THEN <<>> ELSE << Strftime(Head(events)[1]) >>

\* lines 37-41: the first event of kind 0, formatted; <<>> when there is none
RECURSIVE FirstRise(_)
FirstRise(events) ==
    IF events = <<>> THEN <<>>
    ELSE IF Head(events)[2] = Rise THEN << Strftime(Head(events)[1]) >>
    ELSE FirstRise(Tail(events))

\* lines 32-42
RECURSIVE get_next_pass_times(_)
get_next_pass_times(satellites) ==
    IF satellites = <<>> THEN <<>>
    ELSE LET satellite == Head(satellites)
             first == FirstRise(satellite.events)
         IN  (IF first = <<>> THEN <<>>
              ELSE << <<satellite.name, first[1]>> >>)
             \o get_next_pass_times(Tail(satellites))

\* one pass: rise at t, culmination, set
Pass(t) == << <<t, 0>>, <<t + 240, 1>>, <<t + 480, 2>> >>

\* line 35-36: find_events keeps the events of [t0, t0 + 2 days]
FindEvents(track, t0) ==
    LET t1 == t0 + HorizonDays * SecondsPerDay
        InWindow(e) == t0 <= e[1] /\ e[1] <= t1
    IN  SelectSeq(track, InWindow)

\* lines 33-36: every satellite of the file with its events as seen at t0
Observe(file, t0) ==
    [k \in 1..Len(file) |->
        [name |-> file[k].name, events |-> FindEvents(file[k].track, t0)]]

StartClock == 18 * SecondsPerHour - 5 * SecondsPerMinute

NOAA_19 == <<"N","O","A","A"," ","1","9">>
LANDSAT_7 == LANDSAT \o <<" ", "7">>
landsat_9_trailing == <<"l","a","n","d","s","a","t"," ","9"," ">>
LANDSAT_9_PRIME == LANDSAT_9 \o <<" ","(","P","R","I","M","E",")">>

\* satellite names of the ephemeris files tried
Names == {LANDSAT_8, landsat_9_trailing, LANDSAT_9_PRIME, LANDSAT_7, NOAA_19}

\* rise times tried, in seconds after StartClock: at and just after a
\* 30-minute lead, two hours, ten hours
HalfHour == 30 * SecondsPerMinute
TwoHours == 2 * SecondsPerHour
TenHours == 10 * SecondsPerHour
RiseOffsets == {HalfHour, HalfHour + 1, TenHours}

\* the passes of one satellite, as absolute times
Tracks ==
    {<<>>}
    \cup {Pass(StartClock + o) : o \in RiseOffsets}
    \cup {Pass(StartClock - 240) \o Pass(StartClock + TwoHours)}

RECURSIVE SeqsUpTo(_, _)
SeqsUpTo(S, n) ==
    IF n = 0 THEN {<<>>}
    ELSE LET shorter == SeqsUpTo(S, n - 1)
         IN  shorter \cup {Append(q, x) : q \in shorter, x \in S}

\* every ephemeris file of at most MaxSats satellites over Names and Tracks
Ephemerides == SeqsUpTo([name : Names, track : Tracks], MaxSats)

\* a few ephemeris files, for the runs of the whole system
Catalogue ==
    { <<>>,
      << [name |-> LANDSAT_8, track |-> Pass(StartClock + TenHours)],
         [name |-> NOAA_19, track |-> Pass(StartClock + TwoHours)] >>,
      << [name |-> landsat_9_trailing, track |-> Pass(StartClock + HalfHour + 1)],
         [name |-> LANDSAT_8,
          track |-> Pass(StartClock - 240) \o Pass(StartClock + TwoHours)] >>,
      << [name |-> LANDSAT_8, track |-> Pass(StartClock + HalfHour)] >>,
      << [name |-> LANDSAT_8, track |-> Pass(StartClock + TwoHours)],
         [name |-> LANDSAT_8, track |-> Pass(StartClock + TwoHours)] >>,
      << [name |-> LANDSAT_7, track |-> Pass(StartClock + TwoHours)] >> }

----------------------------------------------------------------------------
(* The scheduler: BackgroundScheduler with one 'date' job per add_job.     *)

NewJob(js, run_date, user_id, message, serial) ==
    Append(js, [id |-> Len(js) + 1,
                run_date |-> run_date,
                user_id |-> user_id,
                message |-> message,
                state |-> "Pending",
                by |-> serial])

\* an add_job that drops a job equal to one it already holds
AddJobDedup(js, run_date, user_id, message, serial) ==
    IF \E k \in 1..Len(js) : /\ js[k].run_date = run_date
                             /\ js[k].user_id = user_id
                             /\ js[k].message = message
    THEN js
    ELSE NewJob(js, run_date, user_id, message, serial)

\* an add_job without its lock: the append of one request lands on the slot
\* another request has just filled
AddJobUnlocked(js, run_date, user_id, message, serial) ==
    IF js # <<>> /\ js[Len(js)].by # serial
    THEN [js EXCEPT ![Len(js)] = [id |-> Len(js),
                                  run_date |-> run_date,
                                  user_id |-> user_id,
                                  message |-> message,
                                  state |-> "Pending",
                                  by |-> serial]]
    ELSE NewJob(js, run_date, user_id, message, serial)

\* scheduler.add_job(...): a new job under a fresh id
AddJob(js, run_date, user_id, message, serial) ==
    NewJob(js, run_date, user_id, message, serial)

\* lines 81-87
schedule_notification(js, notification_time_str, user_id, message, serial) ==
    AddJob(js, Strptime(notification_time_str), user_id, message, serial)

\* a scheduler that keeps a one-shot job runnable after its run
DueEvenIfRun(job, t) == job.run_date <= t

\* a scheduler that forgets a job whose grace window has passed
DueWithinGraceOnly(job, t) ==
    /\ job.state = "Pending"
    /\ job.run_date <= t
    /\ t <= job.run_date + GraceWindow

\* a date job is due once its run_date has come, and runs once
Due(job, t) == job.state = "Pending" /\ job.run_date <= t

\* a grace window that is closed at its last second
MisfiredAtBoundary(run_date, t) == t - run_date >= GraceWindow

\* misfire_grace_time: the run is missed when it is later than the grace
Misfired(run_date, t) == t - run_date > GraceWindow

----------------------------------------------------------------------------
(* The request handler home(), one action per step.                        *)

NoPassesMessage == "No future satellite passes found within the next 48 hours for Landsat 8 or 9."

ErrorPage(msg) == [template |-> "error.html", error_message |-> msg]

ConfirmationPage == [template |-> "confirmation.html", error_message |-> ""]

NoResponse == [template |-> "", error_message |-> ""]

Idle ==
    [pc |-> "idle", serial |-> 0, form |-> GoodForm,
     latitude |-> 0, longitude |-> 0, notification_time |-> 0, user_id |-> "",
     confirmation |-> "", source |-> "", satellites |-> <<>>,
     next_passes |-> <<>>, i |-> 0, now |-> 0,
     scheduled_notifications |-> <<>>, data_availabilities |-> <<>>,
     response |-> NoResponse]

\* a lead time that is not subtracted
NotifyTimeNoLead(pass_time, notification_time) == pass_time

\* line 137
NotifyTime(pass_time, notification_time) ==
    pass_time - notification_time * SecondsPerMinute

\* a comparison that lets a notification due right now through
StillFutureOrNow(notify_time, now) == notify_time >= now

\* line 139
StillFuture(notify_time, now) == notify_time > now

\* line 141
Message(satellite_name, pass_time_str) == <<satellite_name, pass_time_str>>

\* a handler that goes from the parsed form straight to the oracle call
PostSkipsConfirmation(r, form) ==
    /\ req[r].pc = "idle"
    /\ served < MaxRequests
    /\ served' = served + 1
    /\ LET lat == ParseFloat(form.latitude)
           lon == ParseFloat(form.longitude)
           lead == ParseInt(form.notification_time)
           started == [Idle EXCEPT !.serial = served + 1, !.form = form]
       IN  IF lat.ok /\ lon.ok /\ lead.ok
           THEN req' = [req EXCEPT ![r] =
                    [started EXCEPT !.pc = "oracle",
                                    !.latitude = lat.val,
                                    !.longitude = lon.val,
                                    !.notification_time = lead.val,
                                    !.user_id = form.user_id]]
           ELSE req' = [req EXCEPT ![r] =
                    [started EXCEPT !.pc = "done",
                                    !.response = ErrorPage("ValueError")]]
    /\ UNCHANGED <<clock, jobs, sent, mapFile>>

\* lines 118-123: the POST arrives and its form is parsed
Post(r, form) ==
    /\ req[r].pc = "idle"
    /\ served < MaxRequests
    /\ served' = served + 1
    /\ LET lat == ParseFloat(form.latitude)
           lon == ParseFloat(form.longitude)
           lead == ParseInt(form.notification_time)
           started == [Idle EXCEPT !.serial = served + 1, !.form = form]
       IN  IF lat.ok /\ lon.ok /\ lead.ok
           THEN req' = [req EXCEPT ![r] =
                    [started EXCEPT !.pc = "confirm",
                                    !.latitude = lat.val,
                                    !.longitude = lon.val,
                                    !.notification_time = lead.val,
                                    !.user_id = form.user_id]]
           ELSE req' = [req EXCEPT ![r] =
                    [started EXCEPT !.pc = "done",
                                    !.response = ErrorPage("ValueError")]]
    /\ UNCHANGED <<clock, jobs, sent, mapFile>>

\* a confirmation whose transport failure reaches the handler's except clause
AfterConfirmationAborts(outcome) == IF outcome = "failed" THEN "done" ELSE "oracle"

\* lines 58-63: the except clause swallows a transport failure, and home()
\* goes on to line 128 whatever the outcome
AfterConfirmation(outcome) == "oracle"

\* line 125: send_confirmation_email, one attempt
Confirm(r) ==
    /\ req[r].pc = "confirm"
    /\ \E outcome \in {"sent", "failed"} :
         req' = [req EXCEPT ![r].pc = AfterConfirmation(outcome),
                            ![r].confirmation = outcome,
                            ![r].response =
                                IF AfterConfirmation(outcome) = "done"
                                THEN ErrorPage("SMTPException") ELSE NoResponse]
    /\ UNCHANGED <<clock, jobs, sent, mapFile, served>>

\* line 128, the ephemeris file could not be loaded: tle_file raises
OracleRaises(r) ==
    /\ req[r].pc = "oracle"
    /\ req' = [req EXCEPT ![r].pc = "done",
                          ![r].source = "unreachable",
                          ![r].response = ErrorPage("IOError")]
    /\ UNCHANGED <<clock, jobs, sent, mapFile, served>>

\* lines 27-30: the ephemeris file is loaded
LoadEphemeris(r, files) ==
    /\ req[r].pc = "oracle"
    /\ \E file \in files :
         req' = [req EXCEPT ![r].pc = "events",
                            ![r].source = IF file = <<>> THEN "empty" ELSE "loaded",
                            ![r].satellites = file]
    /\ UNCHANGED <<clock, jobs, sent, mapFile, served>>

\* lines 32-42 and 128-130: the events of every satellite are searched and the
\* complete list is returned to home()
Oracle(r) ==
    /\ req[r].pc = "events"
    /\ req' = [req EXCEPT ![r].pc = "now",
                          ![r].satellites = <<>>,
                          ![r].next_passes =
                              get_next_pass_times(Observe(req[r].satellites, clock))]
    /\ UNCHANGED <<clock, jobs, sent, mapFile, served>>

\* line 132
ReadNow(r) ==
    /\ req[r].pc = "now"
    /\ req' = [req EXCEPT ![r].pc = "loop", ![r].now = clock, ![r].i = 1]
    /\ UNCHANGED <<clock, jobs, sent, mapFile, served>>

\* lines 133-145: one iteration of the loop over next_passes
LoopStep(r) ==
    /\ req[r].pc = "loop"
    /\ req[r].i <= Len(req[r].next_passes)
    /\ LET q == req[r]
           satellite_name == q.next_passes[q.i][1]
           pass_time_str == q.next_passes[q.i][2]
           pass_time == Strptime(pass_time_str)
           notify_time == NotifyTime(pass_time, q.notification_time)
           notify_time_str == Strftime(notify_time)
       IN  IF IsInteresting(satellite_name) /\ StillFuture(notify_time, q.now)
           THEN /\ jobs' = schedule_notification(jobs, notify_time_str, q.user_id,
                               Message(satellite_name, pass_time_str), q.serial)
                /\ req' = [req EXCEPT
                     ![r].i = q.i + 1,
                     ![r].scheduled_notifications =
                         Append(q.scheduled_notifications,
                                <<satellite_name, notify_time_str>>),
                     ![r].data_availabilities =
                         Append(q.data_availabilities,
                                <<satellite_name,
                                  estimate_data_availability(pass_time_str)>>)]
           ELSE /\ jobs' = jobs
                /\ req' = [req EXCEPT ![r].i = q.i + 1]
    /\ UNCHANGED <<clock, sent, mapFile, served>>

\* an except clause that takes back the jobs the request has submitted
LoopRaisesRollback(r) ==
    /\ req[r].pc = "loop"
    /\ req[r].i <= Len(req[r].next_passes)
    /\ IsInteresting(req[r].next_passes[req[r].i][1])
    /\ LET Others(job) == job.by # req[r].serial
       IN  jobs' = SelectSeq(jobs, Others)
    /\ req' = [req EXCEPT ![r].pc = "done",
                          ![r].response = ErrorPage("OverflowError")]
    /\ UNCHANGED <<clock, sent, mapFile, served>>

\* lines 136-142, 159-161: an iteration for a satellite of interest raises
\* before its job is added (the date arithmetic overflows, or add_job
\* raises); the except clause renders the error page and touches no job
LoopRaises(r) ==
    /\ req[r].pc = "loop"
    /\ req[r].i <= Len(req[r].next_passes)
    /\ IsInteresting(req[r].next_passes[req[r].i][1])
    /\ req' = [req EXCEPT ![r].pc = "done",
                          ![r].response = ErrorPage("OverflowError")]
    /\ UNCHANGED <<clock, jobs, sent, mapFile, served>>

LoopDone(r) == req[r].pc = "loop" /\ req[r].i > Len(req[r].next_passes)

\* a handler that renders the map before it looks at the count
NoPassesRendersMap(r) ==
    /\ LoopDone(r)
    /\ req[r].scheduled_notifications = <<>>
    /\ mapFile' = <<req[r].latitude, req[r].longitude>>
    /\ req' = [req EXCEPT ![r].pc = "done",
                          ![r].response = ErrorPage(NoPassesMessage)]
    /\ UNCHANGED <<clock, jobs, sent, served>>

\* lines 147-148
NoPasses(r) ==
    /\ LoopDone(r)
    /\ req[r].scheduled_notifications = <<>>
    /\ req' = [req EXCEPT ![r].pc = "done",
                          ![r].response = ErrorPage(NoPassesMessage)]
    /\ UNCHANGED <<clock, jobs, sent, mapFile, served>>

\* lines 151-158: the map is saved and the confirmation page rendered
Render(r) ==
    /\ LoopDone(r)
    /\ req[r].scheduled_notifications # <<>>
    /\ mapFile' = <<req[r].latitude, req[r].longitude>>
    /\ req' = [req EXCEPT ![r].pc = "done", ![r].response = ConfirmationPage]
    /\ UNCHANGED <<clock, jobs, sent, served>>

\* lines 151, 159-161: display_grid_on_map raises (m.save cannot write)
RenderRaises(r) ==
    /\ LoopDone(r)
    /\ req[r].scheduled_notifications # <<>>
    /\ req' = [req EXCEPT ![r].pc = "done", ![r].response = ErrorPage("OSError")]
    /\ UNCHANGED <<clock, jobs, sent, mapFile, served>>

\* lines 148, 153-158, 161: the response is returned, the locals are gone
Return(r) ==
    /\ req[r].pc = "done"
    /\ req' = [req EXCEPT ![r] = Idle]
    /\ UNCHANGED <<clock, jobs, sent, mapFile, served>>

\* lines 164-166: GET /map serves static/map.html as it is at that moment
map == mapFile

----------------------------------------------------------------------------
(* The dispatch thread and the clock.                                      *)

\* a dispatch thread that stops running jobs once a send has failed
DispatchStopsAfterFailure(j) ==
    /\ Due(jobs[j], clock)
    /\ \A n \in 1..Len(sent) : sent[n].ok
    /\ IF Misfired(jobs[j].run_date, clock)
       THEN /\ jobs' = [jobs EXCEPT ![j].state = "Expired"]
            /\ sent' = sent
       ELSE /\ jobs' = [jobs EXCEPT ![j].state = "Fired"]
            /\ \E ok \in BOOLEAN :
                 sent' = Append(sent, [id |-> jobs[j].id, at |-> clock, ok |-> ok])
    /\ UNCHANGED <<clock, req, mapFile, served>>

\* the scheduler runs a due job: send_notification (lines 66-78, a transport
\* failure is swallowed), or a missed run
Dispatch(j) ==
    /\ Due(jobs[j], clock)
    /\ IF Misfired(jobs[j].run_date, clock)
       THEN /\ jobs' = [jobs EXCEPT ![j].state = "Expired"]
            /\ sent' = sent
       ELSE /\ jobs' = [jobs EXCEPT ![j].state = "Fired"]
            /\ \E ok \in BOOLEAN :
                 sent' = Append(sent, [id |-> jobs[j].id, at |-> clock, ok |-> ok])
    /\ UNCHANGED <<clock, req, mapFile, served>>

\* one second passes
Tick ==
    /\ clock < StartClock + MaxDrift
    /\ clock' = clock + 1
    /\ UNCHANGED <<jobs, sent, req, mapFile, served>>

\* the instants at which a pending job is looked at: its run date, and the
\* ends of its grace window
Instants ==
    {jobs[j].run_date + d :
        j \in {k \in 1..Len(jobs) : jobs[k].state = "Pending"},
        d \in {0, GraceWindow - 1, GraceWindow, GraceWindow + 1}}

\* hours pass between requests while the dispatch thread is not running
Jump ==
    /\ \A r \in DOMAIN req : req[r].pc = "idle"
    /\ \E t \in Instants : t > clock /\ clock' = t
    /\ UNCHANGED <<jobs, sent, req, mapFile, served>>

----------------------------------------------------------------------------

Init ==
    /\ clock = StartClock
    /\ jobs = <<>>
    /\ sent = <<>>
    /\ req = [r \in Threads |-> Idle]
    /\ mapFile = <<>>
    /\ served = 0

Next ==
    \/ \E r \in Threads, form \in Forms : Post(r, form)
    \/ \E r \in Threads : Confirm(r)
    \/ \E r \in Threads : OracleRaises(r)
    \/ \E r \in Threads : LoadEphemeris(r, Catalogue)
    \/ \E r \in Threads : Oracle(r)
    \/ \E r \in Threads : ReadNow(r)
    \/ \E r \in Threads : LoopStep(r)
    \/ \E r \in Threads : LoopRaises(r)
    \/ \E r \in Threads : NoPasses(r)
    \/ \E r \in Threads : Render(r)
    \/ \E r \in Threads : RenderRaises(r)
    \/ \E r \in Threads : Return(r)
    \/ \E j \in 1..Len(jobs) : Dispatch(j)
    \/ Tick
    \/ Jump

Spec == Init /\ [][Next]_vars

\* the ephemeris files of the runs under fairness: none of interest in time,
\* one job, two jobs
LiveCatalogue ==
    { << [name |-> LANDSAT_8, track |-> Pass(StartClock + HalfHour)] >>,
      << [name |-> LANDSAT_8, track |-> Pass(StartClock + TenHours)],
         [name |-> NOAA_19, track |-> Pass(StartClock + TwoHours)] >>,
      << [name |-> landsat_9_trailing, track |-> Pass(StartClock + HalfHour + 1)],
         [name |-> LANDSAT_8,
          track |-> Pass(StartClock - 240) \o Pass(StartClock + TwoHours)] >> }

\* a request in flight takes its next step: home() is straight-line code
\* around one finite loop
Handler(r) ==
    \/ Confirm(r)
    \/ OracleRaises(r)
    \/ LoadEphemeris(r, LiveCatalogue)
    \/ Oracle(r)
    \/ ReadNow(r)
    \/ LoopStep(r)
    \/ LoopRaises(r)
    \/ NoPasses(r)
    \/ Render(r)
    \/ RenderRaises(r)
    \/ Return(r)

\* line 20: the scheduler's thread is started and keeps evaluating due jobs;
\* time goes on; a request in flight runs to its response
Fairness ==
    /\ WF_vars(\E j \in 1..Len(jobs) : Dispatch(j))
    /\ WF_vars(Jump)
    /\ \A r \in Threads : WF_vars(Handler(r))

\* the whole system under requests of one well-formed form
NextLive ==
    \/ \E r \in Threads : Post(r, GoodForm)
    \/ \E r \in Threads : Handler(r)
    \/ \E j \in 1..Len(jobs) : Dispatch(j)
    \/ Tick
    \/ Jump

SpecLive == Init /\ [][NextLive]_vars /\ Fairness


----------------------------------------------------------------------------
(* One request from the oracle call to its response, over every ephemeris  *)
(* file of Ephemerides: the state after the form was parsed and the        *)
(* confirmation e-mail sent.                                               *)

Leads == {<<"3","0">>, <<"0">>, <<"-","1">>}

InitFilter ==
    /\ clock = StartClock
    /\ jobs = <<>>
    /\ sent = <<>>
    /\ \E lead \in Leads, outcome \in {"sent"} :
         LET form == [GoodForm EXCEPT !.notification_time = lead]
         IN  req = [r \in Threads |->
                     [Idle EXCEPT !.pc = "oracle", !.serial = 1, !.form = form,
                                  !.confirmation = outcome,
                                  !.latitude = ParseFloat(form.latitude).val,
                                  !.longitude = ParseFloat(form.longitude).val,
                                  !.notification_time = ParseInt(lead).val,
                                  !.user_id = form.user_id]]
    /\ mapFile = <<>>
    /\ served = 1

NextFilter ==
    \/ \E r \in Threads : OracleRaises(r)
    \/ \E r \in Threads : LoadEphemeris(r, Ephemerides)
    \/ \E r \in Threads : Oracle(r)
    \/ \E r \in Threads : ReadNow(r)
    \/ \E r \in Threads : LoopStep(r)
    \/ \E r \in Threads : LoopRaises(r)
    \/ \E r \in Threads : NoPasses(r)
    \/ \E r \in Threads : Render(r)
    \/ \E r \in Threads : RenderRaises(r)
    \/ Tick

SpecFilter == InitFilter /\ [][NextFilter]_vars


----------------------------------------------------------------------------
(* The oracle call alone, over ephemeris files whose satellites also have  *)
(* a pass beyond the two-day window, two passes inside it, or only the end *)
(* of a pass that is under way.                                            *)

ThreeDays == 3 * SecondsPerDay

OracleTracks ==
    Tracks
    \cup { Pass(StartClock + ThreeDays),
           Pass(StartClock + TwoHours) \o Pass(StartClock + ThreeDays),
           Pass(StartClock + HalfHour) \o Pass(StartClock + TenHours),
           Pass(StartClock - 240) }

OracleNames == {LANDSAT_8, NOAA_19}

OracleFiles == SeqsUpTo([name : OracleNames, track : OracleTracks], MaxSats)

NextOracle ==
    \/ \E r \in Threads : LoadEphemeris(r, OracleFiles)
    \/ \E r \in Threads : Oracle(r)
    \/ Tick

SpecOracle == InitFilter /\ [][NextOracle]_vars

----------------------------------------------------------------------------
(* Two requests in flight at once, each in a handler thread of its own,    *)
(* beside the dispatch thread: the state after both forms were parsed and  *)
(* both confirmation e-mails sent.                                         *)

Pool == {1, 2}

OtherUser == "other@example.net"

OtherForm ==
    [latitude |-> <<"5","1",".","5">>,
     longitude |-> <<"0">>,
     notification_time |-> <<"3","0">>,
     user_id |-> OtherUser]

FormOf(r) == IF r = 1 THEN GoodForm ELSE OtherForm

InitConc ==
    /\ clock = StartClock
    /\ jobs = <<>>
    /\ sent = <<>>
    /\ req = [r \in Pool |->
                [Idle EXCEPT !.pc = "oracle", !.serial = r, !.form = FormOf(r),
                             !.confirmation = "sent",
                             !.latitude = ParseFloat(FormOf(r).latitude).val,
                             !.longitude = ParseFloat(FormOf(r).longitude).val,
                             !.notification_time =
                                 ParseInt(FormOf(r).notification_time).val,
                             !.user_id = FormOf(r).user_id]]
    /\ mapFile = <<>>
    /\ served = 2

NextConc ==
    \/ \E r \in Pool : OracleRaises(r)
    \/ \E r \in Pool : LoadEphemeris(r, Catalogue)
    \/ \E r \in Pool : Oracle(r)
    \/ \E r \in Pool : ReadNow(r)
    \/ \E r \in Pool : LoopStep(r)
    \/ \E r \in Pool : LoopRaises(r)
    \/ \E r \in Pool : NoPasses(r)
    \/ \E r \in Pool : Render(r)
    \/ \E r \in Pool : RenderRaises(r)
    \/ \E j \in 1..Len(jobs) : Dispatch(j)
    \/ Tick

SpecConc == InitConc /\ [][NextConc]_vars

----------------------------------------------------------------------------
(* Properties.                                                             *)

\* the jobs a request has submitted, in submission order
JobsOf(q) == LET Mine(job) == job.by = q.serial IN SelectSeq(jobs, Mine)

\* the request is past its loop over next_passes
Filtered(q) ==
    /\ q.pc \in {"loop", "done"}
    /\ q.source \in {"loaded", "empty"}
    /\ q.i > Len(q.next_passes)

\* the letters of the markers, in lower case and as capitals
MarkerLetters ==
    {<<"l","L">>, <<"a","A">>, <<"n","N">>, <<"d","D">>, <<"s","S">>, <<"t","T">>}

\* c is m, or the lower-case letter of which m is the capital
SameLetter(c, m) == c = m \/ <<c, m>> \in MarkerLetters

\* the marker occurs in the name, letter case ignored
OccursIgnoringCase(name, marker) ==
    \E p \in 0..(Len(name) - Len(marker)) :
        \A k \in 1..Len(marker) : SameLetter(name[p + k], marker[k])

OfInterest(name) ==
    \/ OccursIgnoringCase(name, <<"L","A","N","D","S","A","T"," ","8">>)
    \/ OccursIgnoringCase(name, <<"L","A","N","D","S","A","T"," ","9">>)

\* OfInterest, tabulated once over the satellite names tried
InterestTable == [name \in Names |-> OfInterest(name)]

\* seconds of a '%Y-%m-%d %H:%M:%S' tuple
Seconds(s) == ((s[1] * 24 + s[2]) * 60 + s[3]) * 60 + s[4]

\* the event's notification would still be in the future at the request's now
InTime(q, e) == Seconds(e[2]) - 60 * q.notification_time > q.now

\* C1: every job a request submits, and every notification it reports, has a
\* fire time strictly after the request's reference time now; an event whose
\* rise time minus the lead is at or before now yields no job and no report.
C1_FireAfterNow ==
    \A r \in Threads :
        LET q == req[r]
            mine == JobsOf(q)
        IN  /\ \A m \in 1..Len(mine) : mine[m].run_date > q.now
            /\ \A m \in 1..Len(q.scheduled_notifications) :
                   Seconds(q.scheduled_notifications[m][2]) > q.now
            /\ \A k \in 1..Len(q.next_passes) :
                   ~InTime(q, q.next_passes[k]) =>
                       /\ \A m \in 1..Len(mine) :
                              mine[m].message # q.next_passes[k]
                       /\ \A m \in 1..Len(q.scheduled_notifications) :
                              q.scheduled_notifications[m] #
                                  << q.next_passes[k][1],
                                     Strftime(Seconds(q.next_passes[k][2])
                                              - 60 * q.notification_time) >>

\* a request that scheduled a job one second ahead of now and dropped an
\* interesting event whose notification time was exactly now
C1_Witness ==
    \E r \in Threads :
        LET q == req[r]
        IN  /\ q.pc = "done"
            /\ \E m \in 1..Len(jobs) : jobs[m].run_date = q.now + 1
            /\ \E k \in 1..Len(q.next_passes) :
                   /\ InterestTable[q.next_passes[k][1]]
                   /\ Seconds(q.next_passes[k][2]) - 60 * q.notification_time = q.now

\* C2: a job is Fired only by an evaluation at a time t with
\* T <= t <= T + 3600 (T + 3600 included), its notifier invoked at t; a job
\* is Expired only by an evaluation at t > T + 3600, and an Expired job's
\* notifier has never been invoked.
C2_GraceWindow ==
    \A j \in 1..Len(jobs) :
        LET T == jobs[j].run_date
            calls == {n \in 1..Len(sent) : sent[n].id = jobs[j].id}
        IN  /\ jobs[j].state = "Fired" =>
                /\ calls # {}
                /\ \A n \in calls : T <= sent[n].at /\ sent[n].at <= T + 3600
            /\ jobs[j].state = "Expired" => calls = {} /\ clock > T + 3600
            /\ jobs[j].state = "Pending" => calls = {}

\* one job fired at exactly T + 3600, another expired when first evaluated at
\* T + 3601
C2_Witness ==
    /\ \E j \in 1..Len(jobs), n \in 1..Len(sent) :
           /\ jobs[j].state = "Fired"
           /\ sent[n].id = jobs[j].id
           /\ sent[n].at = jobs[j].run_date + 3600
    /\ \E j \in 1..Len(jobs) :
           jobs[j].state = "Expired" /\ clock = jobs[j].run_date + 3601

\* the notifier invocations of each job: at most one, none before run_date
OncePerJob ==
    \A j \in 1..Len(jobs) :
        LET calls == {n \in 1..Len(sent) : sent[n].id = jobs[j].id}
        IN  /\ Cardinality(calls) <= 1
            /\ \A n \in calls : sent[n].at >= jobs[j].run_date

\* a job that left Pending keeps its state, and no invocation is taken back
TerminalIsFinal ==
    /\ Len(jobs') >= Len(jobs)
    /\ \A j \in 1..Len(jobs) :
           jobs[j].state # "Pending" => jobs'[j].state = jobs[j].state
    /\ Len(sent') >= Len(sent)
    /\ \A n \in 1..Len(sent) : sent'[n] = sent[n]

\* C3: in every reachable state each job's notifier has been invoked at most
\* once and never before the job's fire time, and a job makes at most one
\* terminal transition: Fired stays Fired, Expired stays Expired.
C3_AtMostOnce == []OncePerJob /\ [][TerminalIsFinal]_vars

\* a job fired once and still Fired after its grace window has passed, beside
\* a job that expired
C3_Witness ==
    \E j, k \in 1..Len(jobs) :
        /\ jobs[j].state = "Fired"
        /\ Cardinality({n \in 1..Len(sent) : sent[n].id = jobs[j].id}) = 1
        /\ clock > jobs[j].run_date + 3600
        /\ jobs[k].state = "Expired"

SameArguments(a, b) ==
    /\ a.run_date = b.run_date
    /\ a.user_id = b.user_id
    /\ a.message = b.message

\* C4: schedule calls with identical arguments each create a job of their
\* own: a request holds one job per schedule call it made, two jobs of
\* identical arguments have distinct identifiers, and once both have fired
\* the notifier has been invoked exactly twice for them, once per job.
C4_NoDeduplication ==
    /\ \A r \in Threads :
           Len(JobsOf(req[r])) = Len(req[r].scheduled_notifications)
    /\ \A a, b \in 1..Len(jobs) :
           (a < b /\ SameArguments(jobs[a], jobs[b])) =>
               /\ jobs[a].id # jobs[b].id
               /\ (jobs[a].state = "Fired" /\ jobs[b].state = "Fired") =>
                      /\ Cardinality({n \in 1..Len(sent) : sent[n].id = jobs[a].id}) = 1
                      /\ Cardinality({n \in 1..Len(sent) : sent[n].id = jobs[b].id}) = 1

\* two jobs of identical arguments, both fired: two notifier invocations
C4_Witness ==
    \E a, b \in 1..Len(jobs) :
        /\ a # b
        /\ SameArguments(jobs[a], jobs[b])
        /\ jobs[a].id # jobs[b].id
        /\ jobs[a].state = "Fired"
        /\ jobs[b].state = "Fired"
        /\ Cardinality({n \in 1..Len(sent) : sent[n].id \in {jobs[a].id, jobs[b].id}}) = 2

\* C5: an event passes the interest filter exactly when its satellite name
\* contains "LANDSAT 8" or "LANDSAT 9", letter case and surrounding
\* whitespace ignored: "landsat 9 " and "LANDSAT 9 (PRIME)" pass, "LANDSAT 7"
\* and "NOAA 19" do not.  (Every event looked at here is in time.)
C5_InterestFilter ==
    /\ InterestTable[landsat_9_trailing] /\ InterestTable[LANDSAT_9_PRIME]
    /\ ~InterestTable[LANDSAT_7] /\ ~InterestTable[NOAA_19]
    /\ \A r \in Threads :
           LET q == req[r]
               Reported(name) ==
                   \E m \in 1..Len(q.scheduled_notifications) :
                       q.scheduled_notifications[m][1] = name
           IN  q.pc \in {"loop", "done"} =>
                   \A k \in 1..Len(q.next_passes) :
                       LET name == q.next_passes[k][1]
                       IN  /\ (k < q.i /\ InterestTable[name] /\ InTime(q, q.next_passes[k]))
                               => Reported(name)
                           /\ ~InterestTable[name] => ~Reported(name)

\* "landsat 9 " was scheduled and an event of another satellite was dropped
C5_Witness ==
    \E r \in Threads :
        LET q == req[r]
        IN  /\ q.pc = "done"
            /\ \E m \in 1..Len(q.scheduled_notifications) :
                   q.scheduled_notifications[m][1] = landsat_9_trailing
            /\ \E k \in 1..Len(q.next_passes) :
                   /\ q.next_passes[k][1] \in {LANDSAT_7, NOAA_19}
                   /\ InTime(q, q.next_passes[k])
            /\ Len(q.scheduled_notifications) = 1

\* C6: once the loop is over, the request has submitted exactly one job per
\* event that is of interest and in time, in event order, with fire time rise
\* time minus lead minutes, and reports exactly those (satellite, fire time)
\* pairs in the same order; no other event has a job.
C6_OneJobPerQualifyingEvent ==
    \A r \in Threads :
        LET q == req[r]
            Qualifies(e) == InterestTable[e[1]] /\ InTime(q, e)
            expected == SelectSeq(q.next_passes, Qualifies)
            mine == JobsOf(q)
        IN  Filtered(q) =>
                /\ Len(mine) = Len(expected)
                /\ Len(q.scheduled_notifications) = Len(expected)
                /\ \A m \in 1..Len(expected) :
                       LET fire == Seconds(expected[m][2]) - 60 * q.notification_time
                       IN  /\ mine[m].run_date = fire
                           /\ mine[m].message = expected[m]
                           /\ mine[m].user_id = q.user_id
                           /\ q.scheduled_notifications[m][1] = expected[m][1]
                           /\ Seconds(q.scheduled_notifications[m][2]) = fire

\* the oracle returned [("LANDSAT 8", now + 10 h), ("NOAA 19", now + 2 h)], the
\* lead is 30 minutes: one job, at now + 9 h 30 min
C6_Witness ==
    \E r \in Threads :
        LET q == req[r]
        IN  /\ q.pc = "done"
            /\ q.notification_time = 30
            /\ Len(q.next_passes) = 2
            /\ q.next_passes[1][1] = LANDSAT_8
            /\ Seconds(q.next_passes[1][2]) = q.now + 10 * 3600
            /\ q.next_passes[2][1] = NOAA_19
            /\ Seconds(q.next_passes[2][2]) = q.now + 2 * 3600
            /\ Len(jobs) = 1
            /\ jobs[1].run_date = q.now + 9 * 3600 + 30 * 60

\* C7: each reported data-availability time is the rise time of the event it
\* was computed for plus exactly 6 hours, whatever the lead time.
C7_SixHoursAfterRise ==
    \A r \in Threads :
        LET q == req[r]
            Qualifies(e) == InterestTable[e[1]] /\ InTime(q, e)
            seen == SubSeq(q.next_passes, 1, q.i - 1)
            expected == SelectSeq(seen, Qualifies)
        IN  q.pc \in {"loop", "done"} =>
                /\ Len(q.data_availabilities) = Len(q.scheduled_notifications)
                /\ \A m \in 1..Len(q.data_availabilities) :
                       /\ m <= Len(expected)
                       /\ q.data_availabilities[m][1] = expected[m][1]
                       /\ Seconds(q.data_availabilities[m][2])
                              = Seconds(expected[m][2]) + 6 * 3600

\* an availability time reported under a non-zero lead, on the day after the
\* rise
C7_Witness ==
    \E r \in Threads :
        LET q == req[r]
        IN  /\ q.notification_time # 0
            /\ \E m \in 1..Len(q.data_availabilities), k \in 1..Len(q.next_passes) :
                   /\ q.data_availabilities[m][1] = q.next_passes[k][1]
                   /\ Seconds(q.data_availabilities[m][2])
                          = Seconds(q.next_passes[k][2]) + 6 * 3600
                   /\ q.data_availabilities[m][2][1] > q.next_passes[k][2][1]

\* the form's latitude, longitude or lead time is malformed, or the latitude
\* is outside [-90, 90], or the longitude outside [-180, 180]
Invalid(form) ==
    LET lat == ParseFloat(form.latitude)
        lon == ParseFloat(form.longitude)
        lead == ParseInt(form.notification_time)
    IN  \/ ~lat.ok \/ ~lon.ok \/ ~lead.ok
        \/ lat.val < -9000 \/ lat.val > 9000
        \/ lon.val < -18000 \/ lon.val > 18000

\* C8: a request (its form well-formed and in range) in which no event
\* survives filtering ends in the 'no qualifying passes' result, and a
\* request that scheduled at least one notification ends in the success
\* outcome.
C8_OutcomeByCount ==
    \A r \in Threads :
        LET q == req[r]
        IN  (q.pc = "done" /\ Filtered(q) /\ ~Invalid(q.form)) =>
                /\ q.scheduled_notifications = <<>>
                       => q.response = ErrorPage(NoPassesMessage)
                /\ q.scheduled_notifications # <<>>
                       => q.response = ConfirmationPage

\* C9: a request (its form well-formed and in range) whose ephemeris source
\* is unreachable or empty ends in the 'no qualifying passes' outcome, not in
\* an error outcome.
C9_UnreachableIsNoPasses ==
    \A r \in Threads :
        LET q == req[r]
        IN  ( /\ q.pc = "done"
              /\ q.source \in {"unreachable", "empty"}
              /\ ~Invalid(q.form) ) =>
                q.response = ErrorPage(NoPassesMessage)

\* C10: a request whose latitude, longitude or lead time is malformed or out
\* of range has added no job to the scheduler, and ends in an error outcome
\* (neither the success page nor the 'no qualifying passes' result).
C10_InvalidInputRejected ==
    \A r \in Threads :
        LET q == req[r]
        IN  (q.pc # "idle" /\ Invalid(q.form)) =>
                /\ JobsOf(q) = <<>>
                /\ q.pc = "done" =>
                       /\ q.response.template = "error.html"
                       /\ q.response.error_message # NoPassesMessage

\* the events of the request that are of interest and in time
Qualifying(q) ==
    LET Qualifies(e) == InterestTable[e[1]] /\ InTime(q, e)
    IN  SelectSeq(q.next_passes, Qualifies)

\* the notifier invocations made for a job
CallsOf(id) == {n \in 1..Len(sent) : sent[n].id = id}

\* C11: a failed e-mail send never aborts the flow and is never retried.  A
\* request whose confirmation send was attempted, failed or not, goes on to
\* the oracle call, and once its loop is over it has submitted one job per
\* qualifying event and ends as the count of those jobs decides, by the same
\* rule for a failed send as for a successful one; a notification whose send
\* failed was attempted exactly once and its job is Fired, not Pending.
C11_EmailFailureSwallowed ==
    /\ \A r \in Threads :
           LET q == req[r]
           IN  q.confirmation \in {"sent", "failed"} =>
                   /\ q.pc \in {"oracle", "events", "now", "loop", "done"}
                   /\ q.pc = "done" =>
                          /\ q.source \in {"unreachable", "empty", "loaded"}
                          /\ q.response.error_message # "SMTPException"
                   /\ Filtered(q) =>
                          /\ Len(JobsOf(q)) = Len(Qualifying(q))
                          /\ q.pc = "done" =>
                                 IF Qualifying(q) = <<>>
                                 THEN q.response = ErrorPage(NoPassesMessage)
                                 ELSE q.response \in {ConfirmationPage, ErrorPage("OSError")}
    /\ \A n \in 1..Len(sent) :
           ~sent[n].ok =>
               /\ Cardinality(CallsOf(sent[n].id)) = 1
               /\ \A j \in 1..Len(jobs) :
                      jobs[j].id = sent[n].id => jobs[j].state = "Fired"

\* a request whose confirmation send failed ended on the confirmation page
\* with a job scheduled, and a notification send has failed
C11_Witness ==
    \E r \in Threads :
        LET q == req[r]
        IN  /\ q.pc = "done"
            /\ q.confirmation = "failed"
            /\ q.response = ConfirmationPage
            /\ JobsOf(q) # <<>>
            /\ \E n \in 1..Len(sent) : ~sent[n].ok

\* the map file is written only by a request whose loop is over with at
\* least one notification scheduled, and a request that ends in the 'no
\* passes' result or in an error raised before the renderer leaves it alone
MapStep ==
    /\ mapFile' # mapFile =>
           \E r \in Threads :
               /\ LoopDone(r)
               /\ req[r].scheduled_notifications # <<>>
               /\ JobsOf(req[r]) # <<>>
               /\ req'[r].pc = "done"
               /\ mapFile' = <<req[r].latitude, req[r].longitude>>
    /\ \A r \in Threads :
           ( /\ req[r].pc # "done"
             /\ req'[r].pc = "done"
             /\ \/ req'[r].response = ErrorPage(NoPassesMessage)
                \/ req'[r].response.error_message
                       \in {"ValueError", "IOError", "OverflowError"} )
               => mapFile' = mapFile

\* C12: the map renderer runs in a request only when at least one
\* notification was scheduled; a request ending in the 'no passes' result or
\* in an error raised before rendering leaves the map file unchanged.
C12_MapOnlyOnSuccess == [][MapStep]_vars

\* a request that scheduled a notification has rendered the map of its
\* location and ended on the confirmation page
C12_Witness ==
    \E r \in Threads :
        LET q == req[r]
        IN  /\ q.pc = "done"
            /\ q.response = ConfirmationPage
            /\ q.scheduled_notifications # <<>>
            /\ mapFile = <<q.latitude, q.longitude>>

\* job j exists and has fired or expired
Settled(j) == j <= Len(jobs) /\ jobs[j].state \in {"Fired", "Expired"}

\* no step takes a job out of the job set or changes what it is to do, and a
\* Pending job changes state only to Fired or Expired
NoCancel ==
    /\ Len(jobs') >= Len(jobs)
    /\ \A j \in 1..Len(jobs) :
           /\ jobs'[j].id = jobs[j].id
           /\ jobs'[j].run_date = jobs[j].run_date
           /\ jobs'[j].user_id = jobs[j].user_id
           /\ jobs'[j].message = jobs[j].message
           /\ jobs'[j].state \in {jobs[j].state, "Fired", "Expired"}

\* every job of the job set has fired or expired
AllSettled == \A j \in 1..Len(jobs) : Settled(j)

\* C13: with the dispatch thread running and time going on, every job that
\* was scheduled eventually is Fired or Expired (again and again every job
\* scheduled so far is settled, and a settled job stays so); no step removes
\* or cancels a job, and no job is ever in a state other than Pending, Fired,
\* Expired.
C13_EveryJobSettles ==
    /\ []<>AllSettled
    /\ [](\A j \in 1..Len(jobs) : jobs[j].state \in {"Pending", "Fired", "Expired"})
    /\ [][NoCancel]_vars

\* two jobs were scheduled and both are settled, one of them expired, with
\* no request in flight
C13_Witness ==
    /\ Len(jobs) = 2
    /\ \A j \in 1..Len(jobs) : Settled(j)
    /\ \E j \in 1..Len(jobs) : jobs[j].state = "Expired"
    /\ \A r \in Threads : req[r].pc = "idle"

\* a step in which a notification send fails changes no other job
FailureFrame ==
    (Len(sent') = Len(sent) + 1 /\ ~sent'[Len(sent')].ok) =>
        /\ Len(jobs') = Len(jobs)
        /\ \A j \in 1..Len(jobs) :
               jobs[j].id # sent'[Len(sent')].id => jobs'[j] = jobs[j]

\* a Pending job inside its grace window can be fired now, whatever became
\* of the sends made for other jobs
StillFireable ==
    \A k \in 1..Len(jobs) :
        ( /\ jobs[k].state = "Pending"
          /\ jobs[k].run_date <= clock
          /\ clock <= jobs[k].run_date + GraceWindow )
            => ENABLED (Dispatch(k) /\ jobs'[k].state = "Fired")

\* C14: jobs are independent.  A transport failure while one job fires
\* leaves the state, fire time and payload of every other job unchanged, and
\* every other Pending job can still be fired inside its own grace window.
C14_JobsIndependent == []StillFireable /\ [][FailureFrame]_vars

\* the send of one job failed, and another job fired after it, inside its
\* own grace window
C14_Witness ==
    \E n, m \in 1..Len(sent) :
        /\ n < m
        /\ ~sent[n].ok
        /\ sent[m].id # sent[n].id
        /\ \E k \in 1..Len(jobs) :
               /\ jobs[k].id = sent[m].id
               /\ jobs[k].state = "Fired"
               /\ jobs[k].run_date <= sent[m].at
               /\ sent[m].at <= jobs[k].run_date + GraceWindow

\* C15: under every interleaving of two requests and the dispatch thread,
\* each schedule call has added exactly one job: every request holds one job
\* per notification it scheduled, in its order, with its own recipient and
\* the message and fire time of that notification; every job belongs to one
\* request, and no two jobs share an identifier.
C15_ConcurrentSubmissions ==
    /\ \A r \in Pool :
           LET q == req[r]
               mine == JobsOf(q)
           IN  /\ Len(mine) = Len(q.scheduled_notifications)
               /\ \A m \in 1..Len(mine) :
                      /\ mine[m].user_id = q.user_id
                      /\ mine[m].message[1] = q.scheduled_notifications[m][1]
                      /\ mine[m].run_date = Seconds(q.scheduled_notifications[m][2])
                      /\ \E k \in 1..Len(q.next_passes) :
                             mine[m].message = q.next_passes[k]
    /\ \A j \in 1..Len(jobs) : \E r \in Pool : jobs[j].by = req[r].serial
    /\ \A a, b \in 1..Len(jobs) : a < b => jobs[a].id # jobs[b].id

\* the submissions of the two requests are interleaved in the job set: one
\* of the first, one of the second, then another of the first
C15_Witness ==
    /\ Len(jobs) >= 3
    /\ jobs[1].by = 1 /\ jobs[1].user_id = User
    /\ jobs[2].by = 2 /\ jobs[2].user_id = OtherUser
    /\ jobs[3].by = 1 /\ jobs[3].user_id = User
    /\ \A r \in Pool : req[r].pc = "done"

\* what GET /map serves, once a request has rendered it, is not replaced by
\* the rendering of another request
MapKept == map # <<>> => map' = map

\* C16: the job set is the only mutable state requests share; in particular
\* the map artifact a request has rendered is not overwritten by, nor served
\* to, a concurrently executing or later request.
C16_OnlyJobSetShared == [][MapKept]_vars

\* the times of the Rise events of a satellite inside [t0, t0 + 48 hours]
RisesInHorizon(satellite, t0) ==
    {satellite.track[n][1] : n \in {m \in 1..Len(satellite.track) :
        /\ satellite.track[m][2] = 0
        /\ satellite.track[m][1] >= t0
        /\ satellite.track[m][1] <= t0 + 48 * 3600}}

\* out is what the oracle is to emit for the file at t0: one event per
\* satellite that has a Rise in the horizon, in file order, timed at the
\* earliest such Rise
Emitted(file, out, t0) ==
    LET HasRise(satellite) == RisesInHorizon(satellite, t0) # {}
        risers == SelectSeq(file, HasRise)
    IN  /\ Len(out) = Len(risers)
        /\ \A k \in 1..Len(risers) :
               /\ out[k][1] = risers[k].name
               /\ Seconds(out[k][2]) \in RisesInHorizon(risers[k], t0)
               /\ \A t \in RisesInHorizon(risers[k], t0) : Seconds(out[k][2]) <= t

OracleStep ==
    \A r \in Threads :
        (req[r].pc = "events" /\ req'[r].pc = "now") =>
            Emitted(req[r].satellites, req'[r].next_passes, clock)

\* C17: the oracle emits, in ephemeris file order and not in time order, one
\* event per satellite that has a Rise event within 48 hours, timed at the
\* earliest such Rise (never at a Culminate or Set event), and nothing for a
\* satellite without a Rise event in the horizon.
C17_FirstRisePerSatellite == [][OracleStep]_vars

\* the oracle has returned two events of which the first is the later one
C17_Witness ==
    \E r \in Threads :
        LET q == req[r]
        IN  /\ q.pc = "now"
            /\ Len(q.next_passes) = 2
            /\ Seconds(q.next_passes[1][2]) > Seconds(q.next_passes[2][2])

\* the confirmation e-mail was attempted before the oracle call, and the
\* oracle has returned its complete list before the loop of home() starts
ConfirmThenOracle(q) ==
    /\ q.pc \in {"oracle", "events", "now", "loop"} =>
           q.confirmation \in {"sent", "failed"}
    /\ q.pc \in {"now", "loop"} =>
           q.source \in {"empty", "loaded"} /\ q.satellites = <<>>

\* C18 as claimed, for a well-formed request: within one request the
\* confirmation attempt comes first, then the complete oracle call, then
\* filtering, then the submissions; no
\* job of the request is submitted before the oracle has returned all events
\* and the filter has decided on all of them.
C18_StrictlySequential ==
    \A r \in Threads :
        LET q == req[r]
        IN  /\ ConfirmThenOracle(q)
            /\ (JobsOf(q) # <<>> /\ ~Invalid(q.form)) =>
                   /\ q.pc \in {"loop", "done"}
                   /\ q.source = "loaded"
                   /\ q.i > Len(q.next_passes)

\* the position of a step in home()
Rank(pc) ==
    CASE pc = "idle" -> 0
      [] pc = "confirm" -> 1
      [] pc = "oracle" -> 2
      [] pc = "events" -> 3
      [] pc = "now" -> 4
      [] pc = "loop" -> 5
      [] pc = "done" -> 6

\* the jobs of the request are those of events the loop has already passed,
\* in event order
JobsOfDecidedEvents(q) ==
    LET mine == JobsOf(q)
    IN  /\ Len(mine) <= q.i - 1
        /\ \E at \in [1..Len(mine) -> 1..(q.i - 1)] :
               /\ \A m \in 1..Len(mine) : mine[m].message = q.next_passes[at[m]]
               /\ \A m, n \in 1..Len(mine) : m < n => at[m] < at[n]

\* a request moves forward through its steps; the list the oracle returned
\* is fixed while the loop runs, and an iteration decides one event and
\* submits at most one job
InOrder ==
    \A r \in Threads :
        /\ Rank(req'[r].pc) >= Rank(req[r].pc) \/ req'[r].pc = "idle"
        /\ (req[r].pc = "loop" /\ req'[r].pc = "loop" /\ req'[r] # req[r]) =>
               /\ req'[r].next_passes = req[r].next_passes
               /\ req'[r].i = req[r].i + 1
               /\ Len(jobs') <= Len(jobs) + 1

\* C18 as amended: within one request the confirmation attempt comes first,
\* then the complete oracle call, then, event by event in the oracle's
\* order, the filter's decision on an event followed at once by its
\* submission; a job is submitted only after the oracle has returned all
\* events and the filter has decided on its own event and the earlier ones.
C18_SequentialPerEvent ==
    /\ [](\A r \in Threads :
             /\ ConfirmThenOracle(req[r])
             /\ JobsOf(req[r]) # <<>> =>
                    /\ req[r].pc \in {"loop", "done"}
                    /\ req[r].source = "loaded"
                    /\ JobsOfDecidedEvents(req[r]))
    /\ [][InOrder]_vars

\* a job of the request is in the job set while a later event of the same
\* request is still to be looked at
C18_Witness ==
    \E r \in Threads :
        LET q == req[r]
        IN  /\ q.pc = "loop"
            /\ q.i <= Len(q.next_passes)
            /\ JobsOf(q) # <<>>
            /\ q.confirmation \in {"sent", "failed"}

\* the request was ended by an exception inside its loop over next_passes
FailedInLoop(q) ==
    /\ q.pc = "done"
    /\ q.source = "loaded"
    /\ q.i <= Len(q.next_passes)

\* a step of a request handler changes no job that is already in the job set
HandlerKeepsJobs ==
    (\E r \in Threads : req'[r] # req[r]) =>
        /\ Len(jobs') >= Len(jobs)
        /\ \A j \in 1..Len(jobs) : jobs'[j] = jobs[j]

\* C19: the handler never removes a job it has submitted.  A request ended
\* by an exception in its loop after k submissions answers with the error
\* page while its k jobs are still in the scheduler, each Pending until the
\* dispatch thread fires or expires it, which eventually happens (the jobs
\* stay in the job set, and a time comes at which all jobs in it are settled).
C19_NoRollback ==
    /\ [](\A r \in Threads :
             LET q == req[r]
                 mine == JobsOf(q)
             IN  FailedInLoop(q) =>
                     /\ q.response.template = "error.html"
                     /\ q.response.error_message # NoPassesMessage
                     /\ Len(mine) = Len(q.scheduled_notifications)
                     /\ \A m \in 1..Len(mine) :
                            /\ mine[m].state \in {"Pending", "Fired", "Expired"}
                            /\ mine[m].state = "Pending" => CallsOf(mine[m].id) = {})
    /\ [][HandlerKeepsJobs]_vars
    /\ (\E r \in Threads : FailedInLoop(req[r]) /\ JobsOf(req[r]) # <<>>)
           ~> AllSettled

\* the loop raised on its second event: the request answers with the error
\* page and the job of its first event is Pending in the scheduler
C19_Witness ==
    \E r \in Threads :
        LET q == req[r]
        IN  /\ FailedInLoop(q)
            /\ q.response = ErrorPage("OverflowError")
            /\ q.i = 2
            /\ Len(JobsOf(q)) = 1
            /\ JobsOf(q)[1].state = "Pending"

====
